---- MODULE Spec2Model ----
(***************************************************************************)
(* Model of thorlabs_CCS100.py: the Spectrometer device adaptor and its    *)
(* calls into the vendor driver (TLCCS_64.dll).  The driver is a black     *)
(* box: every entry point answers with a status code and, where it has     *)
(* output arguments, with values chosen by the driver.                     *)
(*                                                                         *)
(* Units.  Times are counted in units of 1e-5 s (so 1e-5 s = 1, 60 s =     *)
(* 6000000, the 10 ms tolerance = 1000).  Wavelengths are counted in units *)
(* of 1e-4 nm, the text written by '%0.3f' in units of 1e-3 nm.            *)
(***************************************************************************)
EXTENDS Integers, Sequences, FiniteSets

VARIABLES
    pc,                       \* "none": no instance; "idle": an instance, no call in progress;
                              \* "waiting": get_spectrum is in its polling loop
    handle,                   \* driver side of self.handle: "null", "open", "released"
    close_calls,              \* number of dll.close calls issued on the current handle
    status,                   \* self.status.value (c_int32)
    status_idle_soft_trig,
    status_idle_ext_trig,
    status_scan_starting,
    status_scan_in_progress,
    status_scan_ready,
    wavelength_data,          \* self.wavelength_data (<<>> while unset)
    scan_data,                \* self.scan_data (<<>> while unset)
    integration_time_s,       \* self.integration_time_s (0 while unset)
    file,                     \* lines of <filename>.txt (<<>> while not written)
    filename,                 \* the filename argument of that call, when it is get_spectrum
    op,                       \* name of the method called last (or in progress)
    arg_t,                    \* the argument of the last set_integration_time call
    op_calls,                 \* driver calls issued by that method, in order
    outcome,                  \* how that method ended; "running" while in progress
    error_code,               \* the code carried by the UserWarning it raised (0: none)
    retval                    \* what it returned (<<>> for None)

vars == <<pc, handle, close_calls, status, status_idle_soft_trig,
          status_idle_ext_trig, status_scan_starting, status_scan_in_progress,
          status_scan_ready, wavelength_data, scan_data, integration_time_s,
          file, filename, op, arg_t, op_calls, outcome, error_code, retval>>

statusVars == <<status, status_idle_soft_trig, status_idle_ext_trig,
                status_scan_starting, status_scan_in_progress,
                status_scan_ready>>

(***************************************************************************)
(* Bounds of the model.                                                    *)
(***************************************************************************)
\* Number of pixels of the modelled sensor (the program's arrays hold 3648).
NumPixels == 3
\* Number of distinct scan frames the driver can deliver.
NumFrames == 2
\* close() calls followed on one handle.
MaxCloseCalls == 2

(***************************************************************************)
(* Program constants.                                                      *)
(***************************************************************************)
t_min_s == 1               \* 1e-5 s
t_max_s == 6000000         \* 6e1 s
tol_s == 1000              \* 1e-2 s

(***************************************************************************)
(* What the driver can answer.                                             *)
(***************************************************************************)
\* Status codes: 0 is success, the others are failures.
Codes == {0, 7, -1073807339}

\* The codes answered to a straight-line sequence of n driver calls.  A call
\* that raises ends the method, so at most one answer of a sequence is a
\* failure.
Answers(n) ==
    {[j \in 1..n |-> IF j = i THEN c ELSE 0] : i \in 1..n, c \in Codes}

IntMin == (-2147483647) - 1

\* Status words (c_int32): no bit, each of the five decoded bits alone,
\* combinations of them (0x0006, 0x0012, 0x0018, 0x0082, 0x0090, 0x009E),
\* words with undecoded bits (0x0001, 0x0023, 0x0040, 0x0100, 0x017D), and
\* words with the sign bit set (0xFFFFFFFF, 0xFFFFFFEF, 0x80000000).
StatusWords ==
    {0, 2, 4, 8, 16, 128, 6, 18, 24, 130, 144, 158, 1, 35, 64, 256, 381,
     -1, -17, IntMin}

\* Integration times the driver reads back, all within its range 1e-5..60 s.
DriverTimes == {1, 1001, 2002, 100000, 6000000}

\* Wavelength tables: the driver fills the buffer it is handed.
WaveTable(k, n) == [i \in 1..n |-> 3499990 + 7 * k + 958 * i]
WaveTableIds == {1, 2}

\* Scan frames: the driver fills the buffer it is handed.
ScanFrame(k, n) == [i \in 1..n |-> 100 * k + i]
FrameIds == 1..NumFrames

\* Arguments given to set_integration_time: [type, val], val in units of 1e-5 s.
TimeArgs ==
    {[type |-> "float", val |-> v] : v \in {-1, 0, 1, 1001, 1002, 6000000, 6000001}}
    \cup {[type |-> "int", val |-> v] : v \in {0, 100000, 6000000, 6100000}}
    \cup {[type |-> "bool", val |-> v] : v \in {0, 100000}}
    \cup {[type |-> "str", val |-> 10000], [type |-> "NoneType", val |-> 0]}

NoArg == [type |-> "NoneType", val |-> 0]

Filenames == {"None", "example"}

(***************************************************************************)
(* check_error: the restype of every driver entry point.                   *)
(***************************************************************************)
\* A check_error that takes only positive codes for failures.
check_error_positive(error_code_) == error_code_ > 0

\* TRUE when check_error raises UserWarning for this code.
check_error(error_code_) == error_code_ # 0

\* One driver call: the entry point, the code it answered, and the datum that
\* went with it (the status word or integration time the driver was asked
\* for, the integration time handed over).
Call(fn, code, data) == [fn |-> fn, code |-> code, data |-> data]

\* Index of the first call of a straight-line sequence that raises (0: none).
FirstRaise(calls) ==
    IF \E i \in 1..Len(calls) : check_error(calls[i].code)
    THEN CHOOSE i \in 1..Len(calls) :
            /\ check_error(calls[i].code)
            /\ \A j \in 1..(i - 1) : ~check_error(calls[j].code)
    ELSE 0

\* The calls of a straight-line sequence that are issued: all of them up to
\* and including the first one that raises.
Issued(calls) ==
    IF FirstRaise(calls) = 0 THEN calls ELSE SubSeq(calls, 1, FirstRaise(calls))

\* Whether call number i of the sequence returned normally.
Completed(calls, i) == FirstRaise(calls) = 0 \/ FirstRaise(calls) > i

RaisedCode(calls) ==
    IF FirstRaise(calls) = 0 THEN 0 ELSE calls[FirstRaise(calls)].code

(***************************************************************************)
(* _get_status: decoding of the status word.                               *)
(***************************************************************************)
\* The low 31 bits of a c_int32 in two's complement.
Low31(v) == IF v >= 0 THEN v ELSE (v + 2147483647) + 1

RECURSIVE BitAndNat(_, _)
BitAndNat(a, b) ==
    IF a = 0 \/ b = 0 THEN 0
    ELSE (a % 2) * (b % 2) + 2 * BitAndNat(a \div 2, b \div 2)

\* Python's value & mask for a mask below 2^31.
BitAnd(value, mask) == BitAndNat(Low31(value), mask)

idle_soft_trig(value) == BitAnd(value, 2) # 0      \* 0x0002
\* The external-trigger flag read from bit 6.
idle_ext_trig_bit6(value) == BitAnd(value, 64) # 0

idle_ext_trig(value) == BitAnd(value, 128) # 0     \* 0x0080
scan_starting(value) == BitAnd(value, 8) # 0       \* 0x0008
scan_in_progress(value) == BitAnd(value, 4) # 0    \* 0x0004
scan_ready(value) == BitAnd(value, 16) # 0         \* 0x0010

\* The assignments of _get_status once dll.get_status returned normally.
_get_status(value) ==
    /\ status' = value
    /\ status_idle_soft_trig' = idle_soft_trig(value)
    /\ status_idle_ext_trig' = idle_ext_trig(value)
    /\ status_scan_starting' = scan_starting(value)
    /\ status_scan_in_progress' = scan_in_progress(value)
    /\ status_scan_ready' = scan_ready(value)

(***************************************************************************)
(* Initial state: the module is loaded, no Spectrometer exists.            *)
(***************************************************************************)
Init ==
    /\ pc = "none"
    /\ handle = "null"
    /\ close_calls = 0
    /\ status = 0
    /\ status_idle_soft_trig = FALSE
    /\ status_idle_ext_trig = FALSE
    /\ status_scan_starting = FALSE
    /\ status_scan_in_progress = FALSE
    /\ status_scan_ready = FALSE
    /\ wavelength_data = <<>>
    /\ scan_data = <<>>
    /\ integration_time_s = 0
    /\ file = <<>>
    /\ filename = "None"
    /\ op = "none"
    /\ arg_t = NoArg
    /\ op_calls = <<>>
    /\ outcome = "none"
    /\ error_code = 0
    /\ retval = <<>>

(***************************************************************************)
(* Spectrometer.__init__: dll.init, then _get_device_info,                 *)
(* _get_wavelength_data, _get_status and get_integration_time on a fresh   *)
(* object.  When a call raises the object is never bound to a name.        *)
(***************************************************************************)
__init__(codes, k, value, t) ==
    LET calls == << Call("init", codes[1], 0),
                    Call("get_device_info", codes[2], 0),
                    Call("get_wavelength_data", codes[3], 0),
                    Call("get_status", codes[4], value),
                    Call("get_integration_time", codes[5], t) >>
    IN  /\ \/ pc = "none"
           \/ pc = "idle" /\ close_calls > 0
        /\ op' = "__init__"
        /\ arg_t' = NoArg
        /\ filename' = "None"
        /\ op_calls' = Issued(calls)
        /\ handle' = IF Completed(calls, 1) THEN "open" ELSE "null"
        /\ close_calls' = 0
        /\ wavelength_data' =
              IF Completed(calls, 3) THEN WaveTable(k, NumPixels) ELSE <<>>
        /\ IF Completed(calls, 4)
           THEN _get_status(value)
           ELSE _get_status(0)
        /\ integration_time_s' = IF Completed(calls, 5) THEN t ELSE 0
        /\ scan_data' = <<>>
        /\ pc' = IF FirstRaise(calls) = 0 THEN "idle" ELSE "none"
        /\ outcome' = IF FirstRaise(calls) = 0 THEN "return" ELSE "UserWarning"
        /\ error_code' = RaisedCode(calls)
        /\ retval' = <<>>
        /\ UNCHANGED file

(***************************************************************************)
(* Spectrometer.get_integration_time                                       *)
(***************************************************************************)
get_integration_time(code, t) ==
    LET calls == << Call("get_integration_time", code, t) >>
    IN  /\ pc = "idle"
        /\ op' = "get_integration_time"
        /\ arg_t' = NoArg
        /\ filename' = "None"
        /\ op_calls' = Issued(calls)
        /\ integration_time_s' =
              IF Completed(calls, 1) THEN t ELSE integration_time_s
        /\ outcome' = IF FirstRaise(calls) = 0 THEN "return" ELSE "UserWarning"
        /\ error_code' = RaisedCode(calls)
        /\ retval' = IF FirstRaise(calls) = 0 THEN <<t>> ELSE <<>>
        /\ UNCHANGED <<pc, handle, close_calls, statusVars, wavelength_data,
                       scan_data, file>>

(***************************************************************************)
(* Spectrometer.set_integration_time                                       *)
(***************************************************************************)
\* isinstance(x, int) or isinstance(x, float); bool is a subclass of int.
is_number(type) == type \in {"int", "float", "bool"}

\* A range test without its lower limit.
in_range_no_min(t) == t <= t_max_s

\* 1e-5 <= integration_time_s <= 6e1
in_range(t) == t_min_s <= t /\ t <= t_max_s

\* A tolerance test without its second assertion.
within_tol_upper(actual, requested) == actual <= requested + tol_s

\* The two assertions after the read-back.
within_tol(actual, requested) ==
    /\ actual <= requested + tol_s
    /\ actual >= requested - tol_s

set_integration_time(a, codes, t) ==
    LET calls == << Call("set_integration_time", codes[1], a.val),
                    Call("get_integration_time", codes[2], t) >>
        accepted == is_number(a.type) /\ in_range(a.val)
        read_back == IF Completed(calls, 2) THEN t ELSE integration_time_s
    IN  /\ pc = "idle"
        /\ op' = "set_integration_time"
        /\ arg_t' = a
        /\ filename' = "None"
        /\ op_calls' = IF accepted THEN Issued(calls) ELSE <<>>
        /\ integration_time_s' = IF accepted THEN read_back ELSE integration_time_s
        /\ outcome' =
              IF ~accepted THEN "AssertionError"
              ELSE IF FirstRaise(calls) # 0 THEN "UserWarning"
              ELSE IF ~within_tol(read_back, a.val) THEN "AssertionError"
              ELSE "return"
        /\ error_code' = IF accepted THEN RaisedCode(calls) ELSE 0
        /\ retval' = <<>>
        /\ UNCHANGED <<pc, handle, close_calls, statusVars, wavelength_data,
                       scan_data, file>>

(***************************************************************************)
(* Spectrometer.get_spectrum, up to its polling loop: _get_status, the     *)
(* readiness test and _start_scan.                                         *)
(***************************************************************************)
\* A readiness test that refuses nothing.
not_ready_never(idle_flag) == FALSE

\* "if not self.status_idle_soft_trig": the scan is refused.
not_ready(idle_flag) == ~idle_flag

get_spectrum(fname, codes, value) ==
    LET first == << Call("get_status", codes[1], value) >>
        refused == Completed(first, 1) /\ not_ready(idle_soft_trig(value))
        calls == IF refused THEN first
                 ELSE Append(first, Call("start_scan", codes[2], 0))
        waits == ~refused /\ FirstRaise(calls) = 0
    IN  /\ pc = "idle"
        /\ op' = "get_spectrum"
        /\ arg_t' = NoArg
        /\ filename' = fname
        /\ op_calls' = Issued(calls)
        /\ IF Completed(first, 1)
           THEN _get_status(value)
           ELSE UNCHANGED statusVars
        /\ pc' = IF waits THEN "waiting" ELSE "idle"
        /\ outcome' =
              IF refused THEN "return"
              ELSE IF FirstRaise(calls) # 0 THEN "UserWarning"
              ELSE "running"
        /\ error_code' = RaisedCode(calls)
        /\ retval' = <<>>
        /\ UNCHANGED <<handle, close_calls, wavelength_data, scan_data,
                       integration_time_s, file>>

(***************************************************************************)
(* One turn of "while not self.status_scan_ready": sleep, _get_status.     *)
(* Of the status reads of the loop op_calls keeps the latest one.          *)
(***************************************************************************)
\* A loop condition without its negation.
loop_continues_while_ready(ready_flag) == ready_flag

loop_continues(ready_flag) == ~ready_flag

get_spectrum_poll(code, value) ==
    LET calls == << Call("get_status", code, value) >>
    IN  /\ pc = "waiting"
        /\ loop_continues(status_scan_ready)
        /\ op_calls' = SubSeq(op_calls, 1, 2) \o Issued(calls)
        /\ IF Completed(calls, 1)
           THEN _get_status(value)
           ELSE UNCHANGED statusVars
        /\ pc' = IF FirstRaise(calls) = 0 THEN "waiting" ELSE "idle"
        /\ outcome' = IF FirstRaise(calls) = 0 THEN "running" ELSE "UserWarning"
        /\ error_code' = RaisedCode(calls)
        /\ UNCHANGED <<handle, close_calls, wavelength_data, scan_data,
                       integration_time_s, file, filename, op, arg_t, retval>>

(***************************************************************************)
(* get_spectrum after its loop: _get_scan_data, the optional file, return. *)
(***************************************************************************)
\* '%0.3f' % wave: a wavelength in 1e-4 nm rounded to a count of 1e-3 nm.
fmt_wave(wave) == (wave + 5) \div 10

\* Lines that pair the wavelengths with the intensities taken backwards.
save_lines_reversed(waves, datas) ==
    LET n == IF Len(waves) < Len(datas) THEN Len(waves) ELSE Len(datas)
    IN  [i \in 1..n |->
            [wave |-> (waves[i] + 5) \div 10, data |-> datas[n + 1 - i]]]

\* zip(self.wavelength_data, self.scan_data), one line each, in order.
\* str(data) is the shortest text that reads back as the same float.
save_lines(waves, datas) ==
    LET n == IF Len(waves) < Len(datas) THEN Len(waves) ELSE Len(datas)
    IN  [i \in 1..n |-> [wave |-> fmt_wave(waves[i]), data |-> datas[i]]]

get_spectrum_fetch(code, k) ==
    LET calls == << Call("get_scan_data", code, 0) >>
        fetched == IF Completed(calls, 1)
                   THEN ScanFrame(k, NumPixels) ELSE scan_data
    IN  /\ pc = "waiting"
        /\ ~loop_continues(status_scan_ready)
        /\ op_calls' = op_calls \o Issued(calls)
        /\ scan_data' = fetched
        /\ file' = IF FirstRaise(calls) = 0 /\ filename # "None"
                   THEN save_lines(wavelength_data, fetched) ELSE file
        /\ pc' = "idle"
        /\ outcome' = IF FirstRaise(calls) = 0 THEN "return" ELSE "UserWarning"
        /\ error_code' = RaisedCode(calls)
        /\ retval' = IF FirstRaise(calls) = 0
                     THEN <<wavelength_data, fetched>> ELSE <<>>
        /\ UNCHANGED <<handle, close_calls, statusVars, wavelength_data,
                       integration_time_s, filename, op, arg_t>>

(***************************************************************************)
(* Spectrometer.close                                                      *)
(***************************************************************************)
close(code) ==
    LET calls == << Call("close", code, 0) >>
    IN  /\ pc = "idle"
        /\ close_calls < MaxCloseCalls
        /\ op' = "close"
        /\ arg_t' = NoArg
        /\ filename' = "None"
        /\ op_calls' = Issued(calls)
        /\ close_calls' = close_calls + 1
        /\ handle' = IF code = 0 THEN "released" ELSE handle
        /\ outcome' = IF FirstRaise(calls) = 0 THEN "return" ELSE "UserWarning"
        /\ error_code' = RaisedCode(calls)
        /\ retval' = <<>>
        /\ UNCHANGED <<pc, statusVars, wavelength_data, scan_data,
                       integration_time_s, file>>

(***************************************************************************)
(* The calls a program makes, with the inputs drawn from the given sets.   *)
(***************************************************************************)
\* Whether call number i of a straight-line sequence gets an answer.
Reaches(codes, i) == \A j \in 1..(i - 1) : codes[j] = 0

Construct(Ks, Ws, Ts) ==
    \E codes \in Answers(5) :
      \E k \in IF Reaches(codes, 4) THEN Ks ELSE {1} :
        \E value \in IF Reaches(codes, 5) THEN Ws ELSE {0} :
          \E t \in IF Reaches(codes, 6) THEN Ts ELSE {1} :
            __init__(codes, k, value, t)

SetTime(As, Ts) ==
    \E a \in As, codes \in Answers(2) :
      \E t \in IF Reaches(codes, 3) THEN Ts ELSE {1} :
        set_integration_time(a, codes, t)

Scan(Fs, Ws) ==
    \E fname \in Fs, codes \in Answers(2) :
      \E value \in IF Reaches(codes, 2) THEN Ws ELSE {0} :
        get_spectrum(fname, codes, value)

\* The whole adaptor: every method and every driver answer, on one sensor
\* with one integration time.
Next ==
    \/ Construct({1}, {2, 16, 18}, {1001})
    \/ \E code \in Codes : get_integration_time(code, 1001)
    \/ SetTime({[type |-> "float", val |-> 1001]}, {1001})
    \/ Scan({"None"}, {2, 16, 18})
    \/ \E code \in Codes, value \in {2, 16} : get_spectrum_poll(code, value)
    \/ \E code \in Codes, k \in FrameIds : get_spectrum_fetch(code, k)
    \/ \E code \in Codes : close(code)

Spec == Init /\ [][Next]_vars

\* The integration time, over all the arguments and read-back values.
NextTime ==
    \/ Construct({1}, {2}, DriverTimes)
    \/ \E code \in Codes, t \in DriverTimes : get_integration_time(code, t)
    \/ SetTime(TimeArgs, DriverTimes)

SpecTime == Init /\ [][NextTime]_vars

\* A scan, over all the status words.
NextStatus ==
    \/ Construct({1}, StatusWords, {1001})
    \/ Scan({"None"}, StatusWords)
    \/ \E code \in Codes, value \in StatusWords : get_spectrum_poll(code, value)
    \/ \E code \in Codes : get_spectrum_fetch(code, 1)

SpecStatus == Init /\ [][NextStatus]_vars

\* The same, with a driver that goes on answering the polls and in the end
\* reports the scan ready, and a caller that goes on once the loop is over.
PollReady ==
    \E value \in StatusWords : scan_ready(value) /\ get_spectrum_poll(0, value)

Fetch == \E code \in Codes : get_spectrum_fetch(code, 1)

LiveStatus == SpecStatus /\ WF_vars(PollReady) /\ WF_vars(Fetch)

\* The data of a scan, over the wavelength tables, the frames and the files.
NextData ==
    \/ Construct(WaveTableIds, {2, 18}, {1001})
    \/ Scan(Filenames, {2, 16, 18})
    \/ \E code \in Codes, value \in {2, 16} : get_spectrum_poll(code, value)
    \/ \E code \in Codes, k \in FrameIds : get_spectrum_fetch(code, k)
    \/ \E code \in Codes : close(code)

SpecData == Init /\ [][NextData]_vars

(***************************************************************************)
(* Properties.                                                             *)
(***************************************************************************)
\* Bit k of a c_int32 status word.
Bit(word, k) == (Low31(word) \div (2 ^ k)) % 2 = 1

Fns(calls) == {calls[i].fn : i \in 1..Len(calls)}

LastCall == op_calls[Len(op_calls)]

\* C1: when the status word read at the start of a get_spectrum call has bit
\* 0x0002 clear, whatever its other bits, the call issues neither start_scan
\* nor get_scan_data and returns None.
C1_NotReadyNoScan ==
    ( /\ op = "get_spectrum"
      /\ op_calls[1].code = 0
      /\ ~Bit(op_calls[1].data, 1) )
    => /\ pc = "idle"
       /\ outcome = "return"
       /\ Len(retval) = 0
       /\ Fns(op_calls) = {"get_status"}
       /\ Len(op_calls) = 1

C1_Witness ==
    /\ op = "get_spectrum"
    /\ op_calls[1].code = 0
    /\ op_calls[1].data = 381
    /\ outcome = "return"

\* C2: set_integration_time(t) with t outside [1e-5 s, 60 s], or of a type
\* that is no number, fails its precondition with no driver call issued and
\* integration_time_s left as it was.
C2_RejectedBeforeDriver ==
    [][ ( /\ pc = "idle"
          /\ op' = "set_integration_time"
          /\ \/ arg_t'.type \in {"str", "NoneType"}
             \/ arg_t'.val < 1
             \/ arg_t'.val > 6000000 )
        => /\ outcome' = "AssertionError"
           /\ op_calls' = <<>>
           /\ error_code' = 0
           /\ integration_time_s' = integration_time_s ]_vars

C2_Witness ==
    /\ op = "set_integration_time"
    /\ arg_t = [type |-> "float", val |-> 0]
    /\ outcome = "AssertionError"
    /\ op_calls = <<>>
    /\ integration_time_s = 2002

\* C3: when set_integration_time(t), t in range, returns normally, the value
\* the driver read back is stored in integration_time_s and lies within 10 ms
\* of t; when the driver reads back a value further away, the call fails.
C3_ReadBackWithinTolerance ==
    ( /\ op = "set_integration_time"
      /\ Len(op_calls) = 2
      /\ op_calls[2].code = 0 )
    => /\ integration_time_s = op_calls[2].data
       /\ outcome \in {"return", "AssertionError"}
       /\ outcome = "return" <=>
             /\ arg_t.val - 1000 <= integration_time_s
             /\ integration_time_s <= arg_t.val + 1000

C3_Witness ==
    /\ op = "set_integration_time"
    /\ outcome = "return"
    /\ arg_t.val = 1001
    /\ integration_time_s = 1

\* C4: the five flags are bits 1, 7, 3, 2 and 4 of the status word, each on
\* its own, and no other bit of the word bears on them.
C4_FlagsAreBits ==
    /\ status_idle_soft_trig = Bit(status, 1)
    /\ status_idle_ext_trig = Bit(status, 7)
    /\ status_scan_starting = Bit(status, 3)
    /\ status_scan_in_progress = Bit(status, 2)
    /\ status_scan_ready = Bit(status, 4)

C4_Witness ==
    /\ op = "get_spectrum"
    /\ status = 128
    /\ status_idle_ext_trig
    /\ ~status_idle_soft_trig
    /\ ~status_scan_starting
    /\ ~status_scan_in_progress
    /\ ~status_scan_ready

\* C5: dll.close is never called a second time on one handle.
C5_CloseAtMostOnce == close_calls <= 1

\* C6: a handle that dll.init opened is released on every path that ends
\* with no Spectrometer left to close it.
C6_ReleasedOnEveryExit == (pc = "none" /\ handle # "null") => handle = "released"

\* C7: a non-zero code is the last code its method sees: the method ends
\* with a UserWarning that carries the code and issues no further driver
\* call; a UserWarning is raised for a non-zero code only; and get_spectrum
\* changes scan_data only through a get_scan_data call answered with 0.
C7_NonZeroAborts ==
    /\ [] ( /\ \A i \in 1..Len(op_calls) :
                 op_calls[i].code # 0 =>
                    /\ i = Len(op_calls)
                    /\ outcome = "UserWarning"
                    /\ error_code = op_calls[i].code
                    /\ pc # "waiting"
            /\ outcome = "UserWarning" =>
                 /\ Len(op_calls) > 0
                 /\ LastCall.code # 0 )
    /\ [][ (op' = "get_spectrum" /\ scan_data' # scan_data)
           => /\ op_calls'[Len(op_calls')].fn = "get_scan_data"
              /\ \A i \in 1..Len(op_calls') : op_calls'[i].code = 0 ]_vars

C7_Witness ==
    /\ op = "get_spectrum"
    /\ Len(op_calls) = 2
    /\ LastCall.fn = "start_scan"
    /\ LastCall.code = -1073807339
    /\ outcome = "UserWarning"
    /\ error_code = -1073807339
    /\ scan_data = ScanFrame(2, NumPixels)

\* C8: a get_spectrum call that returns data returns the wavelength table
\* read at construction and the intensities of its scan, both one entry per
\* pixel; given a filename, the file holds one line per pixel, line i with
\* wavelength i (to 0.001 nm) and intensity i of that scan.
C8_ArraysCorrespond ==
    /\ [] ( ( /\ op = "get_spectrum"
              /\ outcome = "return"
              /\ Len(retval) = 2 )
            => /\ Len(retval[1]) = NumPixels
               /\ Len(retval[2]) = NumPixels
               /\ retval[1] = wavelength_data
               /\ retval[2] = scan_data
               /\ \E k \in FrameIds : retval[2] = ScanFrame(k, NumPixels)
               /\ filename # "None" =>
                    /\ Len(file) = NumPixels
                    /\ \A i \in 1..NumPixels :
                         /\ file[i].data = retval[2][i]
                         /\ 10 * file[i].wave - retval[1][i] \in -5..5 )
    /\ [][ op' # "__init__" => wavelength_data' = wavelength_data ]_vars

C8_Witness ==
    /\ op = "get_spectrum"
    /\ outcome = "return"
    /\ Len(retval) = 2
    /\ filename = "example"
    /\ wavelength_data = WaveTable(2, NumPixels)
    /\ scan_data = ScanFrame(2, NumPixels)
    /\ file[NumPixels].data = 200 + NumPixels

\* C9: get_scan_data is called only after the start_scan of the same call
\* and after a status read, later than that start_scan, with bit 0x0010 set.
C9_ReadySeenAfterStart ==
    \A i \in 1..Len(op_calls) :
        op_calls[i].fn = "get_scan_data" =>
            \E s \in 1..(i - 1) :
                /\ op_calls[s].fn = "start_scan"
                /\ \E j \in (s + 1)..(i - 1) :
                      /\ op_calls[j].fn = "get_status"
                      /\ op_calls[j].code = 0
                      /\ Bit(op_calls[j].data, 4)

\* C10: get_spectrum leaves its polling loop only with the scan-ready flag
\* of the latest status read set or with a driver failure, however many
\* polls that takes; with a driver that in the end reports the scan ready,
\* it does leave the loop.
C10_LoopEndsOnlyWhenReady ==
    /\ [][ (pc = "waiting" /\ pc' # "waiting")
           => \/ status_scan_ready /\ Bit(status, 4)
              \/ outcome' = "UserWarning" /\ error_code' # 0 ]_vars
    /\ [][ (pc = "waiting" /\ ~Bit(status', 4) /\ outcome' # "UserWarning")
           => pc' = "waiting" ]_vars
    /\ (pc = "waiting") ~> (pc = "idle")

C10_Witness ==
    /\ pc = "waiting"
    /\ Len(op_calls) = 3
    /\ op_calls[3].code = 0
    /\ ~status_scan_ready
====
